---- MODULE Spec2Model ----
(***************************************************************************)
(* Trip-reservation lifecycle and seat inventory of covoiturage-ci.        *)
(*                                                                         *)
(* The state is the content of the three tables the services touch         *)
(* (trips, reservations, users) plus the wall clock.  Every action is one  *)
(* service call (or model method), applied as the code applies it; a call  *)
(* whose guard raises HTTPException commits nothing and is a stuttering    *)
(* step.  Timestamps are kept as "set / not set" booleans, datetimes as    *)
(* whole hours.  Comparisons against func.now() are read as comparisons    *)
(* against the clock.                                                      *)
(*                                                                         *)
(* Spec          : trip inventory; requests run one at a time              *)
(* SpecLifecycle : the whole reservation lifecycle, rating and update      *)
(*                 included; requests run one at a time                    *)
(* SpecTripSeats : Trip.book_seat and Trip.cancel_booking called directly   *)
(* SpecPricing   : the reservation lifecycle while the trip's price changes *)
(* SpecRating    : the path to COMPLETED and the ratings, repeated ones and *)
(*                 out-of-range ones included                              *)
(* SpecConc      : confirm requests run concurrently, each in its own      *)
(*                 SQLAlchemy Session (load, check, commit)                *)
(* SpecConcCancel: a confirm request and a cancel request run concurrently  *)
(* SpecConcCreate: create_reservation requests run concurrently            *)
(*                 (check, commit)                                         *)
(***************************************************************************)
EXTENDS Integers, Sequences, FiniteSets, TLC

VARIABLES
    trips,         \* table trips: sequence of rows, id = index
    reservations,  \* table reservations: sequence of rows, id = index
    users,         \* table users: the columns the services write
    now,           \* wall clock, in hours
    sessions       \* in-flight concurrent requests, each with its own Session

vars == <<trips, reservations, users, now, sessions>>

(***************************************************************************)
(* Bounds of the model                                                     *)
(***************************************************************************)
MaxTrips == 1
MaxReservations == 2
MaxSeats == 2
NumUsers == 4
MaxNow == 1
MaxDeparture == 2
MaxRatings == 2
MaxRequests == 2
\* rows of the trips table in the runs about the limit of active trips: one
\* more than the limit
MaxDriverTrips == 6

(***************************************************************************)
(* Program constants                                                       *)
(***************************************************************************)
MaxActiveTrips == 5
MinHoursBeforeUpdate == 2
PlatformFeePercent == 5
CommissionPercent == 10
MinRating == 1
MaxRating == 5

TripIds == 1..MaxTrips
RequestIds == 1..MaxRequests
Users == 1..NumUsers
SeatInputs == 1..MaxSeats
PriceInputs == {1000}
\* the prices of the pricing runs, where a trip's price changes
PriceChoices == {1000, 1500}
DepartureInputs == 1..MaxDeparture
RatingInputs == {MaxRating}
\* the ratings a client may send, out-of-range ones included
RatingRequestInputs == {MinRating - 1, MaxRating - 1, MaxRating, MaxRating + 1}
\* an unset nullable column is <<>>, a set one is <<value>>
None == <<>>
RequestInputs == {None, <<"text">>}

\* models/trip.py TripStatus
TripStatus == {"ACTIVE", "FULL", "STARTED", "COMPLETED", "CANCELLED"}

\* models/reservation.py ReservationStatus
ReservationStatus ==
    {"PENDING", "CONFIRMED", "PAID", "STARTED", "COMPLETED",
     "CANCELLED_BY_PASSENGER", "CANCELLED_BY_DRIVER", "NO_SHOW"}

\* models/reservation.py PaymentStatus
PaymentStatus == {"PENDING", "COMPLETED", "FAILED", "REFUNDED"}

(***************************************************************************)
(* Users.  The columns below are written at registration and by no         *)
(* operation modelled here: user 1 is a verified driver, the last user is  *)
(* a passenger whose phone is not verified, the others are verified        *)
(* passengers.                                                             *)
(***************************************************************************)
Profile(u) ==
    [user_type |-> IF u = 1 THEN "CONDUCTEUR" ELSE "PASSAGER",
     is_phone_verified |-> (u < NumUsers),
     status |-> IF u < NumUsers THEN "VERIFIED" ELSE "PENDING",
     driver_license_verified |-> (u = 1),
     is_active |-> TRUE]

is_driver(u) == Profile(u).user_type \in {"CONDUCTEUR", "BOTH"}

\* is_phone_verified read as true for every user
is_phone_verified_Anyone(u) == TRUE

is_phone_verified(u) == Profile(u).is_phone_verified

is_verified(u) ==
    LET basic_verified ==
            Profile(u).is_phone_verified /\ Profile(u).status = "VERIFIED"
    IN  IF is_driver(u)
        THEN basic_verified /\ Profile(u).driver_license_verified
        ELSE basic_verified

can_create_trip(u) ==
    /\ is_driver(u)
    /\ is_verified(u)
    /\ Profile(u).status = "VERIFIED"
    /\ Profile(u).is_active

NewUser ==
    [rating_average |-> <<0, 1>>, total_ratings |-> 0,
     trips_as_driver |-> 0, trips_as_passenger |-> 0]

RECURSIVE Gcd(_, _)
Gcd(a, b) == IF b = 0 THEN a ELSE Gcd(b, a % b)

\* a rational number n/d in lowest terms, as <<n, d>>
Ratio(n, d) == LET g == Gcd(n, d) IN <<n \div g, d \div g>>

\* update_rating taking the average itself as the previous score sum
update_rating_ForgetsCount(u, new_rating) ==
    LET avg == u.rating_average
        count == u.total_ratings + 1
    IN  [u EXCEPT !.total_ratings = count,
                  !.rating_average =
                      Ratio(avg[1] + new_rating * avg[2], avg[2] * count)]

\* User.update_rating
update_rating(u, new_rating) ==
    LET avg == u.rating_average
        \* total_score = rating_average * total_ratings
        total_score == Ratio(avg[1] * u.total_ratings, avg[2])
        count == u.total_ratings + 1
    IN  [u EXCEPT !.total_ratings = count,
                  !.rating_average =
                      Ratio(total_score[1] + new_rating * total_score[2],
                            total_score[2] * count)]

(***************************************************************************)
(* Trip model                                                              *)
(***************************************************************************)
\* Trip.is_bookable
is_bookable(trip) ==
    /\ trip.status = "ACTIVE"
    /\ trip.available_seats > 0
    /\ trip.departure_datetime > now

\* Trip.can_be_modified_by
can_be_modified_by(trip, user_id) ==
    /\ trip.driver_id = user_id
    /\ trip.status \in {"ACTIVE", "FULL"}
    /\ trip.departure_datetime > now

\* Trip.book_seat: the returned boolean and the row after the call
book_seat(trip, passenger_count) ==
    IF trip.available_seats >= passenger_count /\ is_bookable(trip)
    THEN LET seats == trip.available_seats - passenger_count
         IN  [ok |-> TRUE,
              trip |-> [trip EXCEPT
                          !.available_seats = seats,
                          !.status = IF seats = 0 THEN "FULL" ELSE @]]
    ELSE [ok |-> FALSE, trip |-> trip]

\* Trip.cancel_booking: the row after the call
cancel_booking(trip, passenger_count) ==
    LET seats == trip.available_seats + passenger_count
    IN  [trip EXCEPT
           !.available_seats = seats,
           !.status = IF @ = "FULL" /\ seats > 0 THEN "ACTIVE" ELSE @]

\* calculate_earnings paying the whole amount to the driver
calculate_earnings_NoCommission(trip) ==
    LET occupied_seats == trip.total_seats - trip.available_seats
        total == occupied_seats * trip.price_per_seat
    IN  [trip EXCEPT !.total_earnings = total,
                     !.platform_commission = 0,
                     !.driver_earnings = total]

\* Trip.calculate_earnings
calculate_earnings(trip) ==
    LET occupied_seats == trip.total_seats - trip.available_seats
        total == occupied_seats * trip.price_per_seat
        commission == (total * CommissionPercent) \div 100
    IN  [trip EXCEPT !.total_earnings = total,
                     !.platform_commission = commission,
                     !.driver_earnings = total - commission]

(***************************************************************************)
(* Reservation model                                                       *)
(***************************************************************************)
\* can_be_cancelled with the test turned into "not cancelled yet"
can_be_cancelled_NotYetCancelled(r) ==
    r.status \notin {"CANCELLED_BY_PASSENGER", "CANCELLED_BY_DRIVER"}

\* can_be_cancelled with STARTED added to the cancellable statuses
can_be_cancelled_UntilCompleted(r) ==
    r.status \in {"PENDING", "CONFIRMED", "PAID", "STARTED"}

\* Reservation.can_be_cancelled
can_be_cancelled(r) == r.status \in {"PENDING", "CONFIRMED", "PAID"}

\* Reservation.can_be_paid
can_be_paid(r) == r.status = "CONFIRMED" /\ r.payment_status = "PENDING"

\* can_be_rated true as soon as the ride has started
can_be_rated_OnceStarted(r) == r.status \in {"STARTED", "COMPLETED"}

\* Reservation.can_be_rated
can_be_rated(r) == r.status = "COMPLETED"

\* Reservation.is_active
is_active(r) == r.status \in {"PENDING", "CONFIRMED", "PAID", "STARTED"}

ReservationIds == 1..Len(reservations)

TripOf(rid) == trips[reservations[rid].trip_id]

\* the permission check passing for every authenticated user
HasAccess_Anyone(rid, user) == user \in Users

\* ReservationService.get_reservation_by_id: the permission check
HasAccess(rid, user) ==
    \/ reservations[rid].passenger_id = user
    \/ TripOf(rid).driver_id = user

\* database/connection.py get_db: a fresh Session, nothing loaded
IdleSession ==
    [pc |-> "idle", reservation_id |-> 0, conductor |-> 0, accept |-> FALSE,
     cancel_user |-> 0, reservation |-> None, trip |-> None, trip_dirty |-> {}]

(***************************************************************************)
(* Initial state: empty tables                                             *)
(***************************************************************************)
Init ==
    /\ trips = <<>>
    /\ reservations = <<>>
    /\ users = [u \in Users |-> NewUser]
    /\ now = 0
    /\ sessions = [q \in RequestIds |-> IdleSession]

(***************************************************************************)
(* TripService                                                             *)
(***************************************************************************)
ActiveTripsCount(driver) ==
    Cardinality({t \in 1..Len(trips) :
        trips[t].driver_id = driver /\ trips[t].status \in {"ACTIVE", "FULL"}})

\* TripService.create_trip, lines 25-82
TripService_create_trip(driver, seats, price, departure) ==
    /\ can_create_trip(driver)
    /\ ActiveTripsCount(driver) < MaxActiveTrips
    /\ trips' = Append(trips,
          [driver_id |-> driver,
           total_seats |-> seats,
           available_seats |-> seats,
           price_per_seat |-> price,
           departure_datetime |-> departure,
           status |-> "ACTIVE",
           total_earnings |-> 0,
           platform_commission |-> 0,
           driver_earnings |-> 0,
           cancelled_at |-> FALSE])
    /\ users' = [users EXCEPT ![driver].trips_as_driver = @ + 1]
    /\ UNCHANGED <<reservations, now, sessions>>

\* TripService.create_trip, while the trips table holds less than MaxTrips rows
create_trip(driver, seats, price, departure) ==
    /\ Len(trips) < MaxTrips
    /\ TripService_create_trip(driver, seats, price, departure)

\* TripService.create_trip, while the trips table holds less than
\* MaxDriverTrips rows
create_trip_of_many(driver, seats, price, departure) ==
    /\ Len(trips) < MaxDriverTrips
    /\ TripService_create_trip(driver, seats, price, departure)

\* the generic "for field, value in update_data.items(): setattr" loop
ApplyUpdate(trip, update_data) ==
    [trip EXCEPT
        !.departure_datetime =
            IF "departure_datetime" \in DOMAIN update_data
            THEN update_data.departure_datetime ELSE @,
        !.available_seats =
            IF "available_seats" \in DOMAIN update_data
            THEN update_data.available_seats ELSE @,
        !.price_per_seat =
            IF "price_per_seat" \in DOMAIN update_data
            THEN update_data.price_per_seat ELSE @]

\* schemas/trip.py TripUpdateRequest: the fields that are state of the model
UpdateFieldValues(field) ==
    CASE field = "departure_datetime" -> DepartureInputs
      [] field = "available_seats" -> SeatInputs
      [] field = "price_per_seat" -> PriceInputs

\* update_data.dict(exclude_unset=True): any subset of the fields
TripUpdateRequest ==
    UNION {{d \in [F -> DepartureInputs \cup SeatInputs \cup PriceInputs] :
               \A f \in F : d[f] \in UpdateFieldValues(f)} :
           F \in SUBSET {"departure_datetime", "available_seats", "price_per_seat"}}

\* update_trip carrying the new price over to the trip's reservations
update_trip_Reprices(t, update_data, driver) ==
    /\ t \in 1..Len(trips)
    /\ trips[t].driver_id = driver
    /\ can_be_modified_by(trips[t], driver)
    /\ trips[t].departure_datetime - now >= MinHoursBeforeUpdate
    /\ trips' = [trips EXCEPT ![t] = ApplyUpdate(@, update_data)]
    /\ reservations' = [rid \in ReservationIds |->
          IF reservations[rid].trip_id = t
          THEN [reservations[rid] EXCEPT
                  !.price_per_seat = trips'[t].price_per_seat,
                  !.total_price = trips'[t].price_per_seat
                                     * reservations[rid].number_of_seats]
          ELSE reservations[rid]]
    /\ UNCHANGED <<users, now, sessions>>

\* TripService.update_trip
update_trip(t, update_data, driver) ==
    /\ t \in 1..Len(trips)
    /\ trips[t].driver_id = driver
    /\ can_be_modified_by(trips[t], driver)
    /\ trips[t].departure_datetime - now >= MinHoursBeforeUpdate
    /\ trips' = [trips EXCEPT ![t] = ApplyUpdate(@, update_data)]
    /\ UNCHANGED <<reservations, users, now, sessions>>

\* cancel_trip cancelling the open reservations of the trip and giving
\* their seats back
cancel_trip_CascadesToReservations(t, driver) ==
    /\ t \in 1..Len(trips)
    /\ trips[t].driver_id = driver
    /\ trips[t].status \in {"ACTIVE", "FULL"}
    /\ trips' = [trips EXCEPT ![t].status = "CANCELLED",
                              ![t].cancelled_at = TRUE,
                              ![t].available_seats = trips[t].total_seats]
    /\ reservations' = [rid \in DOMAIN reservations |->
          IF /\ reservations[rid].trip_id = t
             /\ reservations[rid].status \in {"PENDING", "CONFIRMED"}
          THEN [reservations[rid] EXCEPT !.status = "CANCELLED_BY_DRIVER",
                                         !.cancelled_at = TRUE]
          ELSE reservations[rid]]
    /\ UNCHANGED <<users, now, sessions>>

\* TripService.cancel_trip
cancel_trip(t, driver) ==
    /\ t \in 1..Len(trips)
    /\ trips[t].driver_id = driver
    /\ trips[t].status \in {"ACTIVE", "FULL"}
    /\ trips' = [trips EXCEPT ![t].status = "CANCELLED",
                              ![t].cancelled_at = TRUE]
    /\ UNCHANGED <<reservations, users, now, sessions>>

\* TripService.mark_trip_as_started
mark_trip_as_started(t, driver) ==
    /\ t \in 1..Len(trips)
    /\ trips[t].driver_id = driver
    /\ trips[t].status \in {"ACTIVE", "FULL"}
    /\ trips' = [trips EXCEPT ![t].status = "STARTED"]
    /\ UNCHANGED <<reservations, users, now, sessions>>

\* TripService.mark_trip_as_completed
mark_trip_as_completed(t, driver) ==
    /\ t \in 1..Len(trips)
    /\ trips[t].driver_id = driver
    /\ trips[t].status = "STARTED"
    /\ trips' = [trips EXCEPT
          ![t] = calculate_earnings([@ EXCEPT !.status = "COMPLETED"])]
    /\ UNCHANGED <<reservations, users, now, sessions>>

\* a caller books seats through Trip.book_seat
call_book_seat(t, passenger_count) ==
    /\ t \in 1..Len(trips)
    /\ book_seat(trips[t], passenger_count).ok
    /\ trips' = [trips EXCEPT ![t] = book_seat(@, passenger_count).trip]
    /\ UNCHANGED <<reservations, users, now, sessions>>

\* a caller releases seats through Trip.cancel_booking, any number of times
call_cancel_booking(t, passenger_count) ==
    /\ t \in 1..Len(trips)
    /\ trips[t].available_seats < 2 * MaxSeats
    /\ trips' = [trips EXCEPT ![t] = cancel_booking(@, passenger_count)]
    /\ UNCHANGED <<reservations, users, now, sessions>>

(***************************************************************************)
(* ReservationService                                                      *)
(***************************************************************************)
\* the existing-reservation query looking at PENDING reservations only
ExistingReservation_PendingOnly(t, passenger) ==
    \E rid \in ReservationIds :
        /\ reservations[rid].trip_id = t
        /\ reservations[rid].passenger_id = passenger
        /\ reservations[rid].status = "PENDING"

\* the "existing active reservation" query of create_reservation
ExistingReservation(t, passenger) ==
    \E rid \in ReservationIds :
        /\ reservations[rid].trip_id = t
        /\ reservations[rid].passenger_id = passenger
        /\ reservations[rid].status \in {"PENDING", "CONFIRMED", "PAID", "STARTED"}

\* the new row with the platform fee taken on the price of one seat
NewReservation_FeeOnSeatPrice(t, passenger, seats_requested, special_requests) ==
    [trip_id |-> t,
     passenger_id |-> passenger,
     number_of_seats |-> seats_requested,
     total_price |-> trips[t].price_per_seat * seats_requested,
     price_per_seat |-> trips[t].price_per_seat,
     platform_fee |-> (trips[t].price_per_seat * PlatformFeePercent) \div 100,
     payment_status |-> "PENDING",
     status |-> "PENDING",
     confirmed_at |-> FALSE,
     cancelled_at |-> FALSE,
     actual_pickup_time |-> FALSE,
     actual_dropoff_time |-> FALSE,
     special_requests |-> special_requests,
     driver_rating |-> None,
     passenger_rating |-> None]

\* create_reservation, lines 77-99: the price and the new row
NewReservation(t, passenger, seats_requested, special_requests) ==
    LET total_price == trips[t].price_per_seat * seats_requested
        platform_fee == (total_price * PlatformFeePercent) \div 100
    IN  [trip_id |-> t,
         passenger_id |-> passenger,
         number_of_seats |-> seats_requested,
         total_price |-> total_price,
         price_per_seat |-> trips[t].price_per_seat,
         platform_fee |-> platform_fee,
         payment_status |-> "PENDING",
         status |-> "PENDING",
         confirmed_at |-> FALSE,
         cancelled_at |-> FALSE,
         actual_pickup_time |-> FALSE,
         actual_dropoff_time |-> FALSE,
         special_requests |-> special_requests,
         driver_rating |-> None,
         passenger_rating |-> None]

\* create_reservation, lines 29-75: the request passes every guard
CreationAllowed(t, passenger, seats_requested) ==
    /\ is_phone_verified(passenger)
    /\ trips[t].driver_id # passenger
    /\ ~ (\/ trips[t].status # "ACTIVE"
          \/ trips[t].available_seats <= 0
          \/ trips[t].departure_datetime <= now)
    /\ ~ (trips[t].available_seats < seats_requested)
    /\ ~ ExistingReservation(t, passenger)

\* ReservationService.create_reservation
create_reservation(t, passenger, seats_requested, special_requests) ==
    /\ Len(reservations) < MaxReservations
    /\ t \in 1..Len(trips)
    /\ CreationAllowed(t, passenger, seats_requested)
    /\ reservations' = Append(reservations,
          NewReservation(t, passenger, seats_requested, special_requests))
    /\ UNCHANGED <<trips, users, now, sessions>>

\* confirm_reservation deducting one seat whatever the reservation holds
confirm_reservation_DeductsOneSeat(rid, conductor, accept) ==
    /\ rid \in ReservationIds
    /\ TripOf(rid).driver_id = conductor
    /\ reservations[rid].status = "PENDING"
    /\ LET r == reservations[rid]
           t == r.trip_id
           seats == trips[t].available_seats - 1
       IN  IF accept
           THEN /\ ~ (trips[t].available_seats < r.number_of_seats)
                /\ reservations' = [reservations EXCEPT
                      ![rid].status = "CONFIRMED",
                      ![rid].confirmed_at = TRUE]
                /\ trips' = [trips EXCEPT
                      ![t].available_seats = seats,
                      ![t].status = IF seats = 0 THEN "FULL" ELSE @]
           ELSE /\ reservations' = [reservations EXCEPT
                      ![rid].status = "CANCELLED_BY_DRIVER",
                      ![rid].cancelled_at = TRUE]
                /\ UNCHANGED trips
    /\ UNCHANGED <<users, now, sessions>>

\* confirm_reservation without the seat re-check of lines 160-166
confirm_reservation_NoSeatCheck(rid, conductor, accept) ==
    /\ rid \in ReservationIds
    /\ TripOf(rid).driver_id = conductor
    /\ reservations[rid].status = "PENDING"
    /\ LET r == reservations[rid]
           t == r.trip_id
           seats == trips[t].available_seats - r.number_of_seats
       IN  IF accept
           THEN /\ reservations' = [reservations EXCEPT
                      ![rid].status = "CONFIRMED",
                      ![rid].confirmed_at = TRUE]
                /\ trips' = [trips EXCEPT
                      ![t].available_seats = seats,
                      ![t].status = IF seats = 0 THEN "FULL" ELSE @]
           ELSE /\ reservations' = [reservations EXCEPT
                      ![rid].status = "CANCELLED_BY_DRIVER",
                      ![rid].cancelled_at = TRUE]
                /\ UNCHANGED trips
    /\ UNCHANGED <<users, now, sessions>>

\* confirm_reservation accepting a reservation that is already CONFIRMED
confirm_reservation_AlsoConfirmed(rid, conductor, accept) ==
    /\ rid \in ReservationIds
    /\ TripOf(rid).driver_id = conductor
    /\ reservations[rid].status \in {"PENDING", "CONFIRMED"}
    /\ LET r == reservations[rid]
           t == r.trip_id
           seats == trips[t].available_seats - r.number_of_seats
       IN  IF accept
           THEN /\ ~ (trips[t].available_seats < r.number_of_seats)
                /\ reservations' = [reservations EXCEPT
                      ![rid].status = "CONFIRMED",
                      ![rid].confirmed_at = TRUE]
                /\ trips' = [trips EXCEPT
                      ![t].available_seats = seats,
                      ![t].status = IF seats = 0 THEN "FULL" ELSE @]
           ELSE /\ reservations' = [reservations EXCEPT
                      ![rid].status = "CANCELLED_BY_DRIVER",
                      ![rid].cancelled_at = TRUE]
                /\ UNCHANGED trips
    /\ UNCHANGED <<users, now, sessions>>

\* confirm_reservation with the seat re-check made before the accept test
confirm_reservation_SeatCheckFirst(rid, conductor, accept) ==
    /\ rid \in ReservationIds
    /\ TripOf(rid).driver_id = conductor
    /\ reservations[rid].status = "PENDING"
    /\ ~ (TripOf(rid).available_seats < reservations[rid].number_of_seats)
    /\ LET r == reservations[rid]
           t == r.trip_id
           seats == trips[t].available_seats - r.number_of_seats
       IN  IF accept
           THEN /\ reservations' = [reservations EXCEPT
                      ![rid].status = "CONFIRMED",
                      ![rid].confirmed_at = TRUE]
                /\ trips' = [trips EXCEPT
                      ![t].available_seats = seats,
                      ![t].status = IF seats = 0 THEN "FULL" ELSE @]
           ELSE /\ reservations' = [reservations EXCEPT
                      ![rid].status = "CANCELLED_BY_DRIVER",
                      ![rid].cancelled_at = TRUE]
                /\ UNCHANGED trips
    /\ UNCHANGED <<users, now, sessions>>

\* ReservationService.confirm_reservation
confirm_reservation(rid, conductor, accept) ==
    /\ rid \in ReservationIds
    /\ TripOf(rid).driver_id = conductor
    /\ reservations[rid].status = "PENDING"
    /\ LET r == reservations[rid]
           t == r.trip_id
           seats == trips[t].available_seats - r.number_of_seats
       IN  IF accept
           THEN /\ ~ (trips[t].available_seats < r.number_of_seats)
                /\ reservations' = [reservations EXCEPT
                      ![rid].status = "CONFIRMED",
                      ![rid].confirmed_at = TRUE]
                /\ trips' = [trips EXCEPT
                      ![t].available_seats = seats,
                      ![t].status = IF seats = 0 THEN "FULL" ELSE @]
           ELSE /\ reservations' = [reservations EXCEPT
                      ![rid].status = "CANCELLED_BY_DRIVER",
                      ![rid].cancelled_at = TRUE]
                /\ UNCHANGED trips
    /\ UNCHANGED <<users, now, sessions>>

\* ReservationService.cancel_reservation, lines 207-216: who cancels
CancelledStatus(r, trip, user) ==
    IF r.passenger_id = user
    THEN "CANCELLED_BY_PASSENGER"
    ELSE "CANCELLED_BY_DRIVER"

\* ReservationService.cancel_reservation, lines 221-227: the seat release,
\* evaluated on the reservation as it is at that point of the handler
ReleaseSeats(trip, r) ==
    IF r.status \in {"CONFIRMED", "PAID"}
    THEN [trip EXCEPT
            !.available_seats = @ + r.number_of_seats,
            !.status = IF @ = "FULL" THEN "ACTIVE" ELSE @]
    ELSE trip

\* cancel_reservation handling the refund its TODO announces
cancel_reservation_Refunds(rid, user) ==
    /\ rid \in ReservationIds
    /\ HasAccess(rid, user)
    /\ can_be_cancelled(reservations[rid])
    /\ LET t == reservations[rid].trip_id
           marked == [reservations[rid] EXCEPT
                         !.status = CancelledStatus(reservations[rid], trips[t], user),
                         !.cancelled_at = TRUE,
                         !.payment_status = "REFUNDED"]
       IN  /\ reservations' = [reservations EXCEPT ![rid] = marked]
           /\ trips' = [trips EXCEPT ![t] = ReleaseSeats(@, marked)]
    /\ UNCHANGED <<users, now, sessions>>

\* ReservationService.cancel_reservation
cancel_reservation(rid, user) ==
    /\ rid \in ReservationIds
    /\ HasAccess(rid, user)
    /\ can_be_cancelled(reservations[rid])
    /\ LET t == reservations[rid].trip_id
           \* status is overwritten first ...
           marked == [reservations[rid] EXCEPT
                         !.status = CancelledStatus(reservations[rid], trips[t], user),
                         !.cancelled_at = TRUE]
       IN  /\ reservations' = [reservations EXCEPT ![rid] = marked]
           \* ... and the release test then reads the overwritten status
           /\ trips' = [trips EXCEPT ![t] = ReleaseSeats(@, marked)]
    /\ UNCHANGED <<users, now, sessions>>

\* Reservation.mark_as_paid that sets the payment status and leaves the
\* reservation status alone
Reservation_mark_as_paid_PaymentOnly(r) ==
    IF can_be_paid(r)
    THEN [ok |-> TRUE, reservation |-> [r EXCEPT !.payment_status = "COMPLETED"]]
    ELSE [ok |-> FALSE, reservation |-> r]

\* Reservation.mark_as_paid: the returned boolean and the row after the call
Reservation_mark_as_paid(r) ==
    IF can_be_paid(r)
    THEN [ok |-> TRUE,
          reservation |-> [r EXCEPT !.payment_status = "COMPLETED",
                                    !.status = "PAID"]]
    ELSE [ok |-> FALSE, reservation |-> r]

\* Reservation.mark_as_paid (the "mark paid" entry point)
mark_as_paid(rid) ==
    /\ rid \in ReservationIds
    /\ Reservation_mark_as_paid(reservations[rid]).ok
    /\ reservations' = [reservations EXCEPT
          ![rid] = Reservation_mark_as_paid(@).reservation]
    /\ UNCHANGED <<trips, users, now, sessions>>

\* ReservationService.mark_reservation_as_started
mark_reservation_as_started(rid, user) ==
    /\ rid \in ReservationIds
    /\ HasAccess(rid, user)
    /\ ~ (reservations[rid].status # "CONFIRMED")
    /\ reservations' = [reservations EXCEPT
          ![rid].status = "STARTED",
          ![rid].actual_pickup_time = TRUE]
    /\ UNCHANGED <<trips, users, now, sessions>>

\* ReservationService.mark_reservation_as_completed
mark_reservation_as_completed(rid, user) ==
    /\ rid \in ReservationIds
    /\ HasAccess(rid, user)
    /\ ~ (reservations[rid].status # "STARTED")
    /\ reservations' = [reservations EXCEPT
          ![rid].status = "COMPLETED",
          ![rid].actual_dropoff_time = TRUE]
    /\ users' = [users EXCEPT
          ![reservations[rid].passenger_id].trips_as_passenger = @ + 1]
    /\ UNCHANGED <<trips, now, sessions>>

\* RatingRequest validation that lets every integer through
RatingRequest_Unbounded(rating) == TRUE

\* schemas/reservation.py RatingRequest: rating is ge=1, le=5
RatingRequest(rating) == rating >= MinRating /\ rating <= MaxRating

\* rate_trip feeding the rating into the aggregate of the user who rates
rate_trip_UpdatesCaller(rid, user, rating) ==
    /\ RatingRequest(rating)
    /\ rid \in ReservationIds
    /\ HasAccess(rid, user)
    /\ can_be_rated(reservations[rid])
    /\ users[user].total_ratings < MaxRatings
    /\ reservations' = [reservations EXCEPT
          ![rid].driver_rating =
              IF reservations[rid].passenger_id = user THEN <<rating>> ELSE @,
          ![rid].passenger_rating =
              IF reservations[rid].passenger_id = user THEN @ ELSE <<rating>>]
    /\ users' = [users EXCEPT ![user] = update_rating(@, rating)]
    /\ UNCHANGED <<trips, now, sessions>>

\* POST /{reservation_id}/rate: the request body is validated, then
\* ReservationService.rate_trip runs
rate_trip(rid, user, rating) ==
    /\ RatingRequest(rating)
    /\ rid \in ReservationIds
    /\ HasAccess(rid, user)
    /\ can_be_rated(reservations[rid])
    /\ LET r == reservations[rid]
           driver == trips[r.trip_id].driver_id
       IN  IF r.passenger_id = user
           THEN /\ users[driver].total_ratings < MaxRatings
                /\ reservations' = [reservations EXCEPT
                      ![rid].driver_rating = <<rating>>]
                /\ users' = [users EXCEPT
                      ![driver] = update_rating(@, rating)]
           ELSE /\ users[r.passenger_id].total_ratings < MaxRatings
                /\ reservations' = [reservations EXCEPT
                      ![rid].passenger_rating = <<rating>>]
                /\ users' = [users EXCEPT
                      ![r.passenger_id] = update_rating(@, rating)]
    /\ UNCHANGED <<trips, now, sessions>>

\* routers/reservation.py update_reservation
update_reservation(rid, user, special_requests) ==
    /\ rid \in ReservationIds
    /\ HasAccess(rid, user)
    /\ reservations[rid].passenger_id = user
    /\ reservations' = [reservations EXCEPT
          ![rid].special_requests = special_requests]
    /\ UNCHANGED <<trips, users, now, sessions>>

\* The clock advances
Tick ==
    /\ now < MaxNow
    /\ now' = now + 1
    /\ UNCHANGED <<trips, reservations, users, sessions>>

(***************************************************************************)
(* confirm_reservation as the concurrent requests execute it.  Each        *)
(* request has its own Session (get_db): the SELECTs copy the rows into    *)
(* the Session, the handler checks and changes the copies, and commit()    *)
(* flushes the changed columns as UPDATE ... SET column = value.  No row   *)
(* is locked (no with_for_update, no version column).                      *)
(***************************************************************************)
\* line 138: db.query(Reservation).filter(Reservation.id == reservation_id)
ConfirmLoadReservation(q, rid, conductor, accept) ==
    /\ sessions[q].pc = "idle"
    /\ rid \in ReservationIds
    /\ sessions' = [sessions EXCEPT ![q] =
          [@ EXCEPT !.pc = "reservation_loaded",
                    !.reservation_id = rid,
                    !.conductor = conductor,
                    !.accept = accept,
                    !.reservation = reservations[rid]]]
    /\ UNCHANGED <<trips, reservations, users, now>>

\* line 147: reservation.trip, the lazy load of the trip row
ConfirmLoadTrip(q) ==
    /\ sessions[q].pc = "reservation_loaded"
    /\ sessions' = [sessions EXCEPT ![q] =
          [@ EXCEPT !.pc = "trip_loaded",
                    !.trip = trips[sessions[q].reservation.trip_id]]]
    /\ UNCHANGED <<trips, reservations, users, now>>

\* lines 146-186: the checks and the changes, all on the Session's copies
ConfirmCheck(q) ==
    /\ sessions[q].pc = "trip_loaded"
    /\ LET ses == sessions[q]
           r == ses.reservation
           trip == ses.trip
           seats == trip.available_seats - r.number_of_seats
       IN  IF \/ trip.driver_id # ses.conductor
              \/ r.status # "PENDING"
              \/ ses.accept /\ trip.available_seats < r.number_of_seats
           THEN \* HTTPException: the Session is closed, nothing is written
                sessions' = [sessions EXCEPT ![q].pc = "failed"]
           ELSE IF ses.accept
           THEN sessions' = [sessions EXCEPT ![q] =
                  [@ EXCEPT
                     !.pc = "dirty",
                     !.reservation = [r EXCEPT !.status = "CONFIRMED",
                                               !.confirmed_at = TRUE],
                     !.trip = [trip EXCEPT
                                 !.available_seats = seats,
                                 !.status = IF seats = 0 THEN "FULL" ELSE @],
                     !.trip_dirty =
                        {"available_seats"} \cup
                        (IF seats = 0 /\ trip.status # "FULL"
                         THEN {"status"} ELSE {})]]
           ELSE sessions' = [sessions EXCEPT ![q] =
                  [@ EXCEPT
                     !.pc = "dirty",
                     !.reservation = [r EXCEPT !.status = "CANCELLED_BY_DRIVER",
                                               !.cancelled_at = TRUE]]]
    /\ UNCHANGED <<trips, reservations, users, now>>

\* line 188: db.commit() flushes the changed columns of both rows
ConfirmCommit(q) ==
    /\ sessions[q].pc = "dirty"
    /\ LET ses == sessions[q]
           rid == ses.reservation_id
           t == ses.reservation.trip_id
       IN  \* only the columns the handler assigned are in the UPDATE
           /\ reservations' = [reservations EXCEPT
                 ![rid].status = ses.reservation.status,
                 ![rid].confirmed_at =
                     IF ses.accept THEN ses.reservation.confirmed_at ELSE @,
                 ![rid].cancelled_at =
                     IF ses.accept THEN @ ELSE ses.reservation.cancelled_at]
           /\ trips' = [trips EXCEPT
                 ![t].available_seats =
                     IF "available_seats" \in ses.trip_dirty
                     THEN ses.trip.available_seats ELSE @,
                 ![t].status =
                     IF "status" \in ses.trip_dirty
                     THEN ses.trip.status ELSE @]
    /\ sessions' = [sessions EXCEPT ![q].pc = "committed"]
    /\ UNCHANGED <<users, now>>

TripRequests ==
    \/ \E d \in Users, s \in SeatInputs, p \in PriceInputs, dep \in DepartureInputs :
          create_trip(d, s, p, dep)
    \/ \E t \in TripIds, d \in Users : cancel_trip(t, d)
    \/ \E t \in TripIds, d \in Users : mark_trip_as_started(t, d)
    \/ \E t \in TripIds, d \in Users : mark_trip_as_completed(t, d)

ReservationRequests ==
    \/ \E t \in TripIds, p \in Users, s \in SeatInputs :
          create_reservation(t, p, s, None)
    \/ \E rid \in 1..MaxReservations, c \in Users, accept \in BOOLEAN :
          confirm_reservation(rid, c, accept)
    \/ \E rid \in 1..MaxReservations, u \in Users : cancel_reservation(rid, u)
    \/ \E rid \in 1..MaxReservations : mark_as_paid(rid)
    \/ \E rid \in 1..MaxReservations, u \in Users :
          mark_reservation_as_started(rid, u)
    \/ \E rid \in 1..MaxReservations, u \in Users :
          mark_reservation_as_completed(rid, u)

\* Trip inventory: every request runs alone, from load to commit
Next ==
    \/ TripRequests
    \/ \E t \in TripIds, upd \in TripUpdateRequest, d \in Users :
          update_trip(t, upd, d)
    \/ ReservationRequests
    \/ Tick

Spec == Init /\ [][Next]_vars

\* Reservation lifecycle: every request runs alone; the clock stands still
NextLifecycle ==
    \/ TripRequests
    \/ ReservationRequests
    \/ \E rid \in 1..MaxReservations, u \in Users, rating \in RatingInputs :
          rate_trip(rid, u, rating)
    \/ \E rid \in 1..MaxReservations, u \in Users, sr \in RequestInputs :
          update_reservation(rid, u, sr)

SpecLifecycle == Init /\ [][NextLifecycle]_vars

\* The seat methods of the Trip model, called on trips in every status
NextTripSeats ==
    \/ TripRequests
    \/ \E t \in TripIds, n \in SeatInputs : call_book_seat(t, n)
    \/ \E t \in TripIds, n \in SeatInputs : call_cancel_booking(t, n)
    \/ Tick

SpecTripSeats == Init /\ [][NextTripSeats]_vars

\* The limit of active trips: a driver publishes one-seat trips up to the
\* limit and beyond, cancels some, and answers the requests of passengers
NextTripLimit ==
    \/ \E d \in Users : create_trip_of_many(d, 1, 1000, MaxDeparture)
    \/ \E t \in 1..MaxDriverTrips, d \in Users : cancel_trip(t, d)
    \/ \E t \in 1..MaxDriverTrips, p \in Users :
          create_reservation(t, p, 1, None)
    \/ \E rid \in 1..MaxReservations, c \in Users, accept \in BOOLEAN :
          confirm_reservation(rid, c, accept)

SpecTripLimit == Init /\ [][NextTripLimit]_vars

\* Pricing: the driver changes the price of the trip while reservations are
\* created and go through their lifecycle
NextPricing ==
    \/ \E d \in Users, s \in SeatInputs, p \in PriceChoices, dep \in DepartureInputs :
          create_trip(d, s, p, dep)
    \/ \E t \in TripIds, p \in PriceChoices, d \in Users :
          update_trip(t, [f \in {"price_per_seat"} |-> p], d)
    \/ ReservationRequests
    \/ \E rid \in 1..MaxReservations, u \in Users, sr \in RequestInputs :
          update_reservation(rid, u, sr)

SpecPricing == Init /\ [][NextPricing]_vars

\* Ratings: reservations are taken to COMPLETED and rated, by both parties,
\* any number of times, with any rating a client may send
NextRating ==
    \/ \E d \in Users, s \in SeatInputs, p \in PriceInputs, dep \in DepartureInputs :
          create_trip(d, s, p, dep)
    \/ \E t \in TripIds, p \in Users, s \in SeatInputs :
          create_reservation(t, p, s, None)
    \/ \E rid \in 1..MaxReservations, c \in Users, accept \in BOOLEAN :
          confirm_reservation(rid, c, accept)
    \/ \E rid \in 1..MaxReservations, u \in Users :
          mark_reservation_as_started(rid, u)
    \/ \E rid \in 1..MaxReservations, u \in Users :
          mark_reservation_as_completed(rid, u)
    \/ \E rid \in 1..MaxReservations, u \in Users, rating \in RatingRequestInputs :
          rate_trip(rid, u, rating)

SpecRating == Init /\ [][NextRating]_vars

\* Concurrent confirmations of the reservations of a trip
NextConc ==
    \/ \E d \in Users, s \in SeatInputs, p \in PriceInputs, dep \in DepartureInputs :
          create_trip(d, s, p, dep)
    \/ \E t \in TripIds, p \in Users, s \in SeatInputs :
          create_reservation(t, p, s, None)
    \/ \E q \in RequestIds, rid \in 1..MaxReservations, c \in Users,
          accept \in BOOLEAN :
          ConfirmLoadReservation(q, rid, c, accept)
    \/ \E q \in RequestIds : ConfirmLoadTrip(q)
    \/ \E q \in RequestIds : ConfirmCheck(q)
    \/ \E q \in RequestIds : ConfirmCommit(q)

SpecConc == Init /\ [][NextConc]_vars

(***************************************************************************)
(* cancel_reservation as a concurrent request executes it, in its own      *)
(* Session: get_reservation_by_id loads the reservation and, for the       *)
(* permission check, its trip; the handler changes the copies; commit()    *)
(* flushes the changed columns.                                            *)
(***************************************************************************)
\* line 198: get_reservation_by_id, the SELECTs
CancelLoad(q, rid, user) ==
    /\ sessions[q].pc = "idle"
    /\ rid \in ReservationIds
    /\ sessions' = [sessions EXCEPT ![q] =
          [@ EXCEPT !.pc = "cancel_loaded",
                    !.reservation_id = rid,
                    !.cancel_user = user,
                    !.reservation = reservations[rid],
                    !.trip = trips[reservations[rid].trip_id]]]
    /\ UNCHANGED <<trips, reservations, users, now>>

\* lines 125-131 and 200-227: the checks and the changes, on the copies
CancelCheck(q) ==
    /\ sessions[q].pc = "cancel_loaded"
    /\ LET ses == sessions[q]
           r == ses.reservation
           trip == ses.trip
           marked == [r EXCEPT
                        !.status = CancelledStatus(r, trip, ses.cancel_user),
                        !.cancelled_at = TRUE]
           released == ReleaseSeats(trip, marked)
       IN  IF \/ (r.passenger_id # ses.cancel_user
                    /\ trip.driver_id # ses.cancel_user)
              \/ ~ can_be_cancelled(r)
           THEN \* HTTPException: the Session is closed, nothing is written
                sessions' = [sessions EXCEPT ![q].pc = "failed"]
           ELSE sessions' = [sessions EXCEPT ![q] =
                  [@ EXCEPT
                     !.pc = "cancel_dirty",
                     !.reservation = marked,
                     !.trip = released,
                     !.trip_dirty =
                        (IF released.available_seats # trip.available_seats
                         THEN {"available_seats"} ELSE {}) \cup
                        (IF released.status # trip.status
                         THEN {"status"} ELSE {})]]
    /\ UNCHANGED <<trips, reservations, users, now>>

\* line 229: db.commit() flushes the changed columns
CancelCommit(q) ==
    /\ sessions[q].pc = "cancel_dirty"
    /\ LET ses == sessions[q]
           rid == ses.reservation_id
           t == ses.reservation.trip_id
       IN  /\ reservations' = [reservations EXCEPT
                 ![rid].status = ses.reservation.status,
                 ![rid].cancelled_at = ses.reservation.cancelled_at]
           /\ trips' = [trips EXCEPT
                 ![t].available_seats =
                     IF "available_seats" \in ses.trip_dirty
                     THEN ses.trip.available_seats ELSE @,
                 ![t].status =
                     IF "status" \in ses.trip_dirty
                     THEN ses.trip.status ELSE @]
    /\ sessions' = [sessions EXCEPT ![q].pc = "committed"]
    /\ UNCHANGED <<users, now>>

(***************************************************************************)
(* create_reservation as concurrent requests execute it: the SELECTs and   *)
(* the guards run first, db.add() keeps the new row in the Session, and    *)
(* commit() inserts it.  The table has no unique constraint on             *)
(* (trip_id, passenger_id).                                                *)
(***************************************************************************)
\* lines 25-108: the guards, then db.add(new_reservation)
CreateCheck(q, t, passenger, seats_requested) ==
    /\ sessions[q].pc = "idle"
    /\ t \in 1..Len(trips)
    /\ IF CreationAllowed(t, passenger, seats_requested)
       THEN sessions' = [sessions EXCEPT ![q] =
              [@ EXCEPT
                 !.pc = "added",
                 !.reservation =
                    NewReservation(t, passenger, seats_requested, None)]]
       ELSE \* HTTPException: the Session is closed, nothing is written
            sessions' = [sessions EXCEPT ![q].pc = "failed"]
    /\ UNCHANGED <<trips, reservations, users, now>>

\* line 110: db.commit() inserts the row
CreateCommit(q) ==
    /\ sessions[q].pc = "added"
    /\ Len(reservations) < MaxReservations
    /\ reservations' = Append(reservations, sessions[q].reservation)
    /\ sessions' = [sessions EXCEPT
          ![q] = [@ EXCEPT !.pc = "committed",
                           !.reservation_id = Len(reservations) + 1]]
    /\ UNCHANGED <<trips, users, now>>

\* A confirmation and a cancellation running concurrently
NextConcCancel ==
    \/ \E d \in Users, s \in SeatInputs, p \in PriceInputs, dep \in DepartureInputs :
          create_trip(d, s, p, dep)
    \/ \E t \in TripIds, p \in Users, s \in SeatInputs :
          create_reservation(t, p, s, None)
    \/ \E q \in RequestIds, rid \in 1..MaxReservations, c \in Users,
          accept \in BOOLEAN :
          ConfirmLoadReservation(q, rid, c, accept)
    \/ \E q \in RequestIds : ConfirmLoadTrip(q)
    \/ \E q \in RequestIds : ConfirmCheck(q)
    \/ \E q \in RequestIds : ConfirmCommit(q)
    \/ \E q \in RequestIds, rid \in 1..MaxReservations, u \in Users :
          CancelLoad(q, rid, u)
    \/ \E q \in RequestIds : CancelCheck(q)
    \/ \E q \in RequestIds : CancelCommit(q)

SpecConcCancel == Init /\ [][NextConcCancel]_vars

\* Concurrent creations of reservations
NextConcCreate ==
    \/ \E d \in Users, s \in SeatInputs, p \in PriceInputs, dep \in DepartureInputs :
          create_trip(d, s, p, dep)
    \/ \E q \in RequestIds, t \in TripIds, p \in Users, s \in SeatInputs :
          CreateCheck(q, t, p, s)
    \/ \E q \in RequestIds : CreateCommit(q)

SpecConcCreate == Init /\ [][NextConcCreate]_vars

(***************************************************************************)
(* Properties                                                              *)
(***************************************************************************)
TripRows == 1..Len(trips)

ReservationsOf(t, statuses) ==
    {rid \in ReservationIds :
        reservations[rid].trip_id = t /\ reservations[rid].status \in statuses}

RECURSIVE SumSeats(_)
SumSeats(rids) ==
    IF rids = {} THEN 0
    ELSE LET rid == CHOOSE x \in rids : TRUE
         IN  reservations[rid].number_of_seats + SumSeats(rids \ {rid})

Cancelled == {"CANCELLED_BY_PASSENGER", "CANCELLED_BY_DRIVER"}

TerminalReservation == {"COMPLETED", "NO_SHOW"} \cup Cancelled

Quiescent == \A q \in RequestIds : sessions[q].pc \in {"idle", "committed", "failed"}

\* every request that ran is an acceptance, and no two are for one reservation
AcceptsOfDifferentReservations ==
    \A q \in RequestIds :
        sessions[q].pc # "idle" =>
            /\ sessions[q].accept
            /\ \A q2 \in RequestIds \ {q} :
                  sessions[q2].pc # "idle" =>
                      sessions[q2].reservation_id # sessions[q].reservation_id

\* C3: once concurrent confirm-accept requests for different PENDING
\* reservations of a trip have all ended, the seats of
\* the reservations that ended CONFIRMED are within the seats the trip had,
\* and available_seats is what the trip had minus those seats, never negative.
C3_ConcurrentConfirmsWithinCapacity ==
    (Quiescent /\ AcceptsOfDifferentReservations) =>
        \A t \in TripRows :
            LET taken == SumSeats(ReservationsOf(t, {"CONFIRMED"}))
            IN  /\ taken <= trips[t].total_seats
                /\ trips[t].available_seats = trips[t].total_seats - taken
                /\ trips[t].available_seats >= 0

\* C4: a step that cancels a CONFIRMED or PAID reservation raises the trip's
\* available_seats by exactly the reservation's number_of_seats; a step that
\* cancels a PENDING one leaves available_seats unchanged.
C4_CancelReleasesSeats ==
    [][\A rid \in ReservationIds :
          LET r == reservations[rid]
              t == r.trip_id
          IN  reservations'[rid].status \in Cancelled =>
                /\ r.status \in {"CONFIRMED", "PAID"} =>
                      trips'[t].available_seats =
                          trips[t].available_seats + r.number_of_seats
                /\ r.status = "PENDING" =>
                      trips'[t].available_seats = trips[t].available_seats]_vars

\* C5: when a CONFIRMED reservation of a FULL trip (available_seats = 0) is
\* cancelled, the trip is ACTIVE after that same step.
C5_CancelReopensFullTrip ==
    [][\A rid \in ReservationIds :
          LET r == reservations[rid]
              t == r.trip_id
          IN  /\ r.status = "CONFIRMED"
              /\ reservations'[rid].status \in Cancelled
              /\ trips[t].status = "FULL"
              /\ trips[t].available_seats = 0
              => trips'[t].status = "ACTIVE"]_vars

C7_TerminalTripFrozen ==
    [][\A t \in TripRows :
          trips[t].status \in {"CANCELLED", "COMPLETED"} =>
              /\ trips'[t].status = trips[t].status
              /\ trips'[t].available_seats = trips[t].available_seats]_vars

TripTransitions ==
    {<<"ACTIVE", "FULL">>, <<"FULL", "ACTIVE">>,
     <<"ACTIVE", "STARTED">>, <<"FULL", "STARTED">>,
     <<"STARTED", "COMPLETED">>,
     <<"ACTIVE", "CANCELLED">>, <<"FULL", "CANCELLED">>}

\* C8: every change of a trip's status is ACTIVE->FULL, FULL->ACTIVE,
\* ACTIVE|FULL->STARTED, STARTED->COMPLETED or ACTIVE|FULL->CANCELLED.
C8_TripStatusChanges ==
    [][\A t \in TripRows :
          trips'[t].status # trips[t].status =>
              <<trips[t].status, trips'[t].status>> \in TripTransitions]_vars

\* C9: a reservation is confirmed, and its seats deducted, only on a trip that
\* is ACTIVE and whose departure is in the future; otherwise the confirmation
\* changes nothing.
C9_ConfirmOnlyOnBookableTrip ==
    [][\A rid \in ReservationIds :
          LET t == reservations[rid].trip_id
          IN  /\ reservations[rid].status = "PENDING"
              /\ reservations'[rid].status = "CONFIRMED"
              => /\ trips[t].status = "ACTIVE"
                 /\ trips[t].departure_datetime > now]_vars

\* C10: once a reservation is COMPLETED, CANCELLED_BY_PASSENGER,
\* CANCELLED_BY_DRIVER or NO_SHOW, no operation changes its status.
C10_TerminalReservationFrozen ==
    [][\A rid \in ReservationIds :
          reservations[rid].status \in TerminalReservation =>
              reservations'[rid].status = reservations[rid].status]_vars

\* C10 witness: operations have acted on terminal reservations: a COMPLETED
\* one has been rated and updated, next to a cancelled one
C10_RatedAfterCompletion ==
    \E rid, other \in ReservationIds :
        /\ reservations[rid].status = "COMPLETED"
        /\ reservations[rid].driver_rating # None
        /\ reservations[rid].special_requests # None
        /\ reservations[other].status \in Cancelled

\* C11: a reservation enters STARTED only from PAID (no state skipping).
C11_StartedOnlyFromPaid ==
    [][\A rid \in ReservationIds :
          /\ reservations[rid].status # "STARTED"
          /\ reservations'[rid].status = "STARTED"
          => reservations[rid].status = "PAID"]_vars

\* C12: the lifecycle passes PENDING, CONFIRMED, PAID, STARTED, COMPLETED in
\* that order, so a PAID reservation can take the start request: some user's
\* mark_reservation_as_started succeeds on it.
C12_PaidReservationCanStart ==
    \A rid \in ReservationIds :
        reservations[rid].status = "PAID" =>
            ENABLED (\E u \in Users : mark_reservation_as_started(rid, u))

\* C13: mark-paid succeeds exactly on status CONFIRMED with payment_status
\* PENDING and then sets status PAID and payment_status COMPLETED together,
\* nothing else; otherwise it reports failure and returns the row unchanged,
\* so a second mark-paid on its own result is rejected.
C13_MarkPaidGuardAndEffect ==
    \A rid \in ReservationIds :
        LET r == reservations[rid]
            res == Reservation_mark_as_paid(r)
        IN  /\ res.ok <=> (r.status = "CONFIRMED" /\ r.payment_status = "PENDING")
            /\ res.ok => res.reservation =
                            [r EXCEPT !.status = "PAID",
                                      !.payment_status = "COMPLETED"]
            /\ ~ res.ok => res.reservation = r
            /\ ~ Reservation_mark_as_paid(res.reservation).ok
            /\ Reservation_mark_as_paid(res.reservation).reservation
                  = res.reservation

\* C13 witness: mark-paid has acted on one reservation while another one is
\* in a state where it is refused
C13_PaidNextToUnpayable ==
    \E rid, other \in ReservationIds :
        /\ reservations[rid].status = "PAID"
        /\ reservations[rid].payment_status = "COMPLETED"
        /\ reservations[other].status = "PENDING"

\* C14: a cancel request on a reservation that is not PENDING, CONFIRMED or
\* PAID fails for every caller, so it changes nothing and a reservation that
\* is already cancelled is never cancelled (and its seats credited) again.
C14_CancelRejectedOutsideCancellable ==
    \A rid \in ReservationIds :
        reservations[rid].status \notin {"PENDING", "CONFIRMED", "PAID"} =>
            \A u \in Users : ~ ENABLED cancel_reservation(rid, u)

\* C14 witness: a confirmed reservation has been cancelled, next to a
\* reservation that has started
C14_CancelledNextToStarted ==
    \E rid, other \in ReservationIds :
        /\ reservations[rid].status \in Cancelled
        /\ reservations[rid].confirmed_at
        /\ reservations[other].status \in {"STARTED", "COMPLETED"}

\* C15: the step that creates a reservation leaves every trip as it was, and
\* a step lowers a trip's available_seats only by moving one of its
\* reservations PENDING -> CONFIRMED, by exactly that reservation's
\* number_of_seats, the trip being FULL after the step when 0 is reached.
C15_SeatsDeductedOnlyAtConfirmation ==
    [][/\ Len(reservations') > Len(reservations) => trips' = trips
       /\ \A t \in TripRows :
             trips'[t].available_seats < trips[t].available_seats =>
                 \E rid \in ReservationIds :
                     /\ reservations[rid].trip_id = t
                     /\ reservations[rid].status = "PENDING"
                     /\ reservations'[rid].status = "CONFIRMED"
                     /\ trips'[t].available_seats =
                           trips[t].available_seats
                               - reservations[rid].number_of_seats
                     /\ trips'[t].available_seats = 0 =>
                           trips'[t].status = "FULL"]_vars

\* C15 witness: a two-seat reservation is CONFIRMED and deducted while a
\* second reservation of the trip, still PENDING, has deducted nothing
C15_ConfirmedNextToPending ==
    \E rid, other \in ReservationIds :
        /\ reservations[rid].status = "CONFIRMED"
        /\ reservations[rid].number_of_seats = 2
        /\ reservations[other].status = "PENDING"
        /\ reservations[other].trip_id = reservations[rid].trip_id
        /\ TripOf(rid).available_seats = 0
        /\ TripOf(rid).status = "FULL"

\* C16: with requests running one at a time, every (trip, passenger) pair has
\* at most one reservation in PENDING, CONFIRMED, PAID or STARTED.
C16_OneActiveReservationPerPair ==
    \A r1, r2 \in ReservationIds :
        /\ r1 # r2
        /\ reservations[r1].trip_id = reservations[r2].trip_id
        /\ reservations[r1].passenger_id = reservations[r2].passenger_id
        => ~ (/\ reservations[r1].status \in {"PENDING", "CONFIRMED", "PAID", "STARTED"}
              /\ reservations[r2].status \in {"PENDING", "CONFIRMED", "PAID", "STARTED"})

\* C16 witness: a passenger holds a second reservation on the trip, created
\* after the first one left the active statuses, and it has been confirmed
C16_RebookedAfterCancel ==
    \E r1, r2 \in ReservationIds :
        /\ r1 # r2
        /\ reservations[r1].trip_id = reservations[r2].trip_id
        /\ reservations[r1].passenger_id = reservations[r2].passenger_id
        /\ reservations[r1].status \in Cancelled
        /\ reservations[r2].status = "CONFIRMED"

\* C17: when create_reservation requests of one passenger for one trip
\* interleave, at most one of them commits a reservation, and the pair never
\* has two active reservations.
C17_ConcurrentCreatesOnePerPair ==
    /\ \A q1, q2 \in RequestIds :
          /\ q1 # q2
          /\ sessions[q1].pc = "committed"
          /\ sessions[q2].pc = "committed"
          => \/ sessions[q1].reservation.trip_id # sessions[q2].reservation.trip_id
             \/ sessions[q1].reservation.passenger_id
                    # sessions[q2].reservation.passenger_id
    /\ \A r1, r2 \in ReservationIds :
          /\ r1 # r2
          /\ reservations[r1].trip_id = reservations[r2].trip_id
          /\ reservations[r1].passenger_id = reservations[r2].passenger_id
          => ~ (is_active(reservations[r1]) /\ is_active(reservations[r2]))

\* C18: a step adds a reservation only when every creation guard passes in
\* the state it starts from: the seats requested are within the trip's
\* available_seats, the trip is ACTIVE with a seat left and a departure in
\* the future, the passenger is not its driver and is phone-verified; and
\* that step changes no trip and no user.
C18_CreateOnlyWhenGuardsPass ==
    [][Len(reservations') > Len(reservations) =>
          LET r == reservations'[Len(reservations')]
              trip == trips[r.trip_id]
          IN  /\ r.number_of_seats <= trip.available_seats
              /\ trip.status = "ACTIVE"
              /\ trip.available_seats > 0
              /\ trip.departure_datetime > now
              /\ r.passenger_id # trip.driver_id
              /\ Profile(r.passenger_id).is_phone_verified
              /\ trips' = trips
              /\ users' = users]_vars

\* C18 witness: a reservation has been created and confirmed, and the trip it
\* filled has departed, so a further creation on it is refused while the
\* table has room
C18_FullDepartedTrip ==
    \E rid \in ReservationIds :
        /\ Len(reservations) < MaxReservations
        /\ reservations[rid].status = "CONFIRMED"
        /\ TripOf(rid).status = "FULL"
        /\ TripOf(rid).available_seats = 0
        /\ TripOf(rid).departure_datetime <= now

\* C19: seats are re-checked at confirm time: on a PENDING reservation whose
\* number_of_seats exceeds the trip's current available_seats the accept
\* request is refused for every caller, so the reservation stays PENDING and
\* the trip keeps its available_seats and status.
C19_SeatsRecheckedAtConfirm ==
    \A rid \in ReservationIds :
        /\ reservations[rid].status = "PENDING"
        /\ reservations[rid].number_of_seats > TripOf(rid).available_seats
        => \A c \in Users : ~ ENABLED confirm_reservation(rid, c, TRUE)

\* C19 witness: a PENDING reservation asks for more seats than the trip has
\* left after another reservation of the trip was confirmed
C19_PendingExceedsSeatsLeft ==
    \E rid, other \in ReservationIds :
        /\ reservations[rid].status = "PENDING"
        /\ reservations[other].status = "CONFIRMED"
        /\ reservations[other].trip_id = reservations[rid].trip_id
        /\ TripOf(rid).available_seats = 1
        /\ reservations[rid].number_of_seats = 2

\* the seats of the reservations of trip t that were confirmed at some point
ConfirmedOnce(t) ==
    {rid \in ReservationIds :
        reservations[rid].trip_id = t /\ reservations[rid].confirmed_at}

\* C20: a confirm request, accept or reject, on a reservation that is not
\* PENDING is refused for every caller, and each reservation's seats have
\* been deducted from the trip at most once.
C20_NoDoubleConfirmation ==
    /\ \A rid \in ReservationIds :
          reservations[rid].status # "PENDING" =>
              \A c \in Users, accept \in BOOLEAN :
                  ~ ENABLED confirm_reservation(rid, c, accept)
    /\ \A t \in TripRows :
          trips[t].available_seats >=
              trips[t].total_seats - SumSeats(ConfirmedOnce(t))

\* C20 witness: a reservation confirmed once has gone on to COMPLETED while a
\* second one of the trip is CONFIRMED
C20_ConfirmedTwiceOver ==
    \E rid, other \in ReservationIds :
        /\ rid # other
        /\ reservations[rid].status = "COMPLETED"
        /\ reservations[other].status = "CONFIRMED"
        /\ reservations[other].trip_id = reservations[rid].trip_id
        /\ TripOf(rid).available_seats = 0

\* C21: on a PENDING reservation the refusal (accept = false) by the trip's
\* driver always succeeds, whatever the trip's seats and status, and every
\* such step ends with the reservation CANCELLED_BY_DRIVER, cancelled_at
\* stamped, and the trips as they were.
C21_RefusalAlwaysSucceeds ==
    \A rid \in ReservationIds :
        reservations[rid].status = "PENDING" =>
            /\ ENABLED confirm_reservation(rid, TripOf(rid).driver_id, FALSE)
            /\ ~ ENABLED (/\ confirm_reservation(rid, TripOf(rid).driver_id, FALSE)
                          /\ ~ (/\ reservations'[rid].status = "CANCELLED_BY_DRIVER"
                                /\ reservations'[rid].cancelled_at
                                /\ trips' = trips))

\* C21 witness: a never-confirmed reservation was cancelled by the driver,
\* and a PENDING one waits on a trip that is no longer ACTIVE and has fewer
\* seats left than it asks for
C21_PendingOnFullTrip ==
    \E rid, other \in ReservationIds :
        /\ reservations[rid].status = "PENDING"
        /\ TripOf(rid).status # "ACTIVE"
        /\ TripOf(rid).available_seats < reservations[rid].number_of_seats
        /\ reservations[other].status = "CANCELLED_BY_DRIVER"
        /\ ~ reservations[other].confirmed_at

\* C22: confirm and reject are refused to every caller but the trip's driver,
\* and cancel, start, complete and rate are refused to every caller who is
\* neither the reservation's passenger nor the trip's driver, so such a
\* caller changes nothing.
C22_OnlyPartiesAct ==
    \A rid \in ReservationIds, u \in Users :
        /\ u # TripOf(rid).driver_id =>
              \A accept \in BOOLEAN : ~ ENABLED confirm_reservation(rid, u, accept)
        /\ (u # TripOf(rid).driver_id /\ u # reservations[rid].passenger_id) =>
              /\ ~ ENABLED cancel_reservation(rid, u)
              /\ ~ ENABLED mark_reservation_as_started(rid, u)
              /\ ~ ENABLED mark_reservation_as_completed(rid, u)
              /\ \A rating \in RatingRequestInputs :
                    ~ ENABLED rate_trip(rid, u, rating)

\* C22 witness: the parties have taken a reservation to COMPLETED and rated
\* it, and another one is CONFIRMED, open to cancel and start, while a
\* verified user is a stranger to both
C22_StrangerNextToOpenReservations ==
    \E rid, other \in ReservationIds, u \in Users :
        /\ is_phone_verified(u)
        /\ u \notin {TripOf(rid).driver_id, reservations[rid].passenger_id,
                     reservations[other].passenger_id}
        /\ reservations[rid].status = "COMPLETED"
        /\ reservations[rid].driver_rating # None
        /\ reservations[other].status = "CONFIRMED"

\* C23: a rate request on a reservation that is not COMPLETED is refused for
\* every caller and every rating, so the rating fields and the users'
\* aggregates stay as they are.
C23_RateOnlyWhenCompleted ==
    \A rid \in ReservationIds :
        reservations[rid].status # "COMPLETED" =>
            \A u \in Users, rating \in RatingRequestInputs :
                ~ ENABLED rate_trip(rid, u, rating)

\* C23 witness: a COMPLETED reservation has been rated while another one has
\* started and is not COMPLETED yet
C23_RatedNextToStarted ==
    \E rid, other \in ReservationIds :
        /\ reservations[rid].status = "COMPLETED"
        /\ reservations[rid].driver_rating # None
        /\ reservations[other].status = "STARTED"

\* the ratings stored on reservations that count for user u
RatingsReceived(u) ==
    Cardinality({rid \in ReservationIds :
        TripOf(rid).driver_id = u /\ reservations[rid].driver_rating # None})
    + Cardinality({rid \in ReservationIds :
        reservations[rid].passenger_id = u
        /\ reservations[rid].passenger_rating # None})

\* C24: a party's repeated rating of a reservation counts once: a user's
\* total_ratings is never more than the number of ratings stored for that
\* user, one per reservation and direction.
C24_RatingAppliedOncePerDirection ==
    \A u \in Users : users[u].total_ratings <= RatingsReceived(u)

\* C25: rating fields are write-once: no step changes a driver_rating or a
\* passenger_rating that is already set.
C25_RatingsWriteOnce ==
    [][\A rid \in ReservationIds :
          /\ reservations[rid].driver_rating # None =>
                reservations'[rid].driver_rating = reservations[rid].driver_rating
          /\ reservations[rid].passenger_rating # None =>
                reservations'[rid].passenger_rating
                    = reservations[rid].passenger_rating]_vars

\* C26: a rate request with a rating outside 1..5 is refused, and every
\* stored rating is absent or within 1..5.
C26_RatingsWithinRange ==
    \A rid \in ReservationIds :
        /\ \A u \in Users, rating \in RatingRequestInputs :
              (rating < 1 \/ rating > 5) => ~ ENABLED rate_trip(rid, u, rating)
        /\ \/ reservations[rid].driver_rating = None
           \/ reservations[rid].driver_rating[1] \in 1..5
        /\ \/ reservations[rid].passenger_rating = None
           \/ reservations[rid].passenger_rating[1] \in 1..5

\* C26 witness: both parties have rated a COMPLETED reservation, on which the
\* out-of-range requests are refused
C26_BothPartiesRated ==
    \E rid \in ReservationIds :
        /\ reservations[rid].status = "COMPLETED"
        /\ reservations[rid].driver_rating = <<4>>
        /\ reservations[rid].passenger_rating = <<5>>

\* C27: update_rating raises total_ratings by exactly 1 and makes
\* rating_average x total_ratings the previous product plus the new rating
\* (average 4 over 2 ratings, then a 5: score sum 13 over 3 ratings).
C27_UpdateRatingAddsToScoreSum ==
    /\ \A u \in Users, r \in MinRating..MaxRating :
          LET old == users[u]
              new == update_rating(old, r)
          IN  /\ new.total_ratings = old.total_ratings + 1
              \* new_avg * new_count = old_avg * old_count + r
              /\ new.rating_average[1] * new.total_ratings * old.rating_average[2]
                    = (old.rating_average[1] * old.total_ratings
                          + r * old.rating_average[2]) * new.rating_average[2]
    /\ LET new == update_rating([NewUser EXCEPT !.rating_average = <<4, 1>>,
                                                !.total_ratings = 2], 5)
       IN  new.total_ratings = 3 /\ new.rating_average = <<13, 3>>

\* C27 witness: a user holds an average of 4 over 2 ratings, and another one
\* has received a 5
C27_AverageFourOverTwo ==
    \E u, v \in Users :
        /\ users[u].rating_average = <<4, 1>>
        /\ users[u].total_ratings = 2
        /\ users[v].rating_average = <<5, 1>>
        /\ users[v].total_ratings = 1

\* C28: the step that creates a reservation gives it the trip's current
\* price_per_seat, total_price = price_per_seat x number_of_seats and
\* platform_fee = 5% of total_price (2 seats at 1000: 2000 and 100).
C28_PriceSnapshotAtCreation ==
    [][Len(reservations') > Len(reservations) =>
          LET r == reservations'[Len(reservations')]
              trip == trips[r.trip_id]
          IN  /\ r.price_per_seat = trip.price_per_seat
              /\ r.total_price = trip.price_per_seat * r.number_of_seats
              /\ 100 * r.platform_fee = 5 * r.total_price
              /\ (trip.price_per_seat = 1000 /\ r.number_of_seats = 2) =>
                    (r.total_price = 2000 /\ r.platform_fee = 100)]_vars

\* C28 witness: two seats were reserved at 1000, the trip's price was then
\* changed, and a later reservation was created at the new price
C28_ReservedAtTwoPrices ==
    \E rid, other \in ReservationIds :
        /\ reservations[rid].number_of_seats = 2
        /\ reservations[rid].price_per_seat = 1000
        /\ reservations[rid].total_price = 2000
        /\ reservations[rid].platform_fee = 100
        /\ other > rid
        /\ reservations[other].trip_id = reservations[rid].trip_id
        /\ reservations[other].price_per_seat = 1500

\* C29: no step changes the number_of_seats, price_per_seat, total_price or
\* platform_fee of an existing reservation, a change of the trip's price
\* included.
C29_FinancialSnapshotFrozen ==
    [][\A rid \in ReservationIds :
          /\ reservations'[rid].number_of_seats = reservations[rid].number_of_seats
          /\ reservations'[rid].price_per_seat = reservations[rid].price_per_seat
          /\ reservations'[rid].total_price = reservations[rid].total_price
          /\ reservations'[rid].platform_fee = reservations[rid].platform_fee]_vars

\* C29 witness: a reservation made at 1000 has been updated by its passenger
\* and confirmed, and the trip's price is now 1500
C29_TripRepricedAfterBooking ==
    \E rid \in ReservationIds :
        /\ reservations[rid].price_per_seat = 1000
        /\ reservations[rid].special_requests # None
        /\ reservations[rid].status = "CONFIRMED"
        /\ TripOf(rid).price_per_seat = 1500

\* C30: the step that moves a trip STARTED -> COMPLETED sets total_earnings
\* to (total_seats - available_seats) x price_per_seat, platform_commission
\* to 10% of it and driver_earnings to the rest; no other step changes the
\* earnings fields, so a trip that is not STARTED keeps them.
C30_EarningsAtCompletion ==
    [][\A t \in TripRows :
          LET trip == trips[t]
              after == trips'[t]
              completes == trip.status = "STARTED" /\ after.status = "COMPLETED"
          IN  /\ after.status = "COMPLETED" /\ trip.status # "COMPLETED"
                    => trip.status = "STARTED"
              /\ completes =>
                    /\ after.total_earnings =
                          (trip.total_seats - trip.available_seats)
                              * trip.price_per_seat
                    /\ 100 * after.platform_commission = 10 * after.total_earnings
                    /\ after.driver_earnings =
                          after.total_earnings - after.platform_commission
                    /\ after.driver_earnings + after.platform_commission
                          = after.total_earnings
              /\ ~ completes =>
                    /\ after.total_earnings = trip.total_earnings
                    /\ after.platform_commission = trip.platform_commission
                    /\ after.driver_earnings = trip.driver_earnings]_vars

\* C30 witness: a trip with two seats taken at 1000 is COMPLETED with
\* earnings 2000, commission 200 and 1800 for the driver
C30_CompletedWithEarnings ==
    \E t \in TripRows :
        /\ trips[t].status = "COMPLETED"
        /\ trips[t].total_earnings = 2000
        /\ trips[t].platform_commission = 200
        /\ trips[t].driver_earnings = 1800

\* C31: the seat release (Trip.cancel_booking) never raises a trip's
\* available_seats above its total_seats, called twice or on a trip that has
\* all its seats included.
C31_ReleaseWithinCapacity ==
    [][\A t \in TripRows :
          trips'[t].available_seats > trips[t].available_seats =>
              trips'[t].available_seats <= trips'[t].total_seats]_vars

\* C32: when the driver's confirm-accept and the passenger's cancel of one
\* reservation run concurrently and both have ended, the committed result is
\* that of a serial order: the reservation is CANCELLED_BY_PASSENGER with
\* cancelled_at stamped, and its seats are off the trip exactly when
\* confirmed_at is stamped.
C32_ConfirmAndCancelSerialized ==
    \A q1, q2 \in RequestIds :
        LET rid == sessions[q1].reservation_id
            r == reservations[rid]
            trip == trips[r.trip_id]
        IN  /\ sessions[q1].pc \in {"committed", "failed"}
            /\ sessions[q2].pc \in {"committed", "failed"}
            /\ sessions[q1].cancel_user = 0
            /\ sessions[q1].accept
            /\ rid # 0
            /\ sessions[q2].reservation_id = rid
            /\ sessions[q1].conductor = trip.driver_id
            /\ sessions[q2].cancel_user = r.passenger_id
            => /\ r.status = "CANCELLED_BY_PASSENGER"
               /\ r.cancelled_at
               /\ trip.available_seats =
                     IF r.confirmed_at
                     THEN trip.total_seats - r.number_of_seats
                     ELSE trip.total_seats

\* user u's row differs from what it was in the rating aggregate at most
OnlyAggregateChanged(u) ==
    /\ users' = [users EXCEPT
          ![u].rating_average = users'[u].rating_average,
          ![u].total_ratings = users'[u].total_ratings]
    /\ trips' = trips

\* C33: when the passenger rates a COMPLETED reservation only the driver's
\* rating aggregate and the reservation's driver_rating change; when the
\* driver rates it only the passenger's aggregate and passenger_rating
\* change; the reservation stays COMPLETED.
C33_RatingTouchesOnlyItsTarget ==
    \A rid \in ReservationIds, rating \in RatingRequestInputs :
        LET passenger == reservations[rid].passenger_id
            driver == TripOf(rid).driver_id
        IN  reservations[rid].status = "COMPLETED" =>
              /\ ~ ENABLED (/\ rate_trip(rid, passenger, rating)
                            /\ ~ (/\ reservations' = [reservations EXCEPT
                                        ![rid].driver_rating = <<rating>>]
                                  /\ users'[driver].total_ratings
                                        = users[driver].total_ratings + 1
                                  /\ OnlyAggregateChanged(driver)))
              /\ ~ ENABLED (/\ rate_trip(rid, driver, rating)
                            /\ ~ (/\ reservations' = [reservations EXCEPT
                                        ![rid].passenger_rating = <<rating>>]
                                  /\ users'[passenger].total_ratings
                                        = users[passenger].total_ratings + 1
                                  /\ OnlyAggregateChanged(passenger)))

\* C33 witness: one COMPLETED reservation has been rated once by each party,
\* and each of them holds exactly the rating the other gave
C33_EachPartyRatedOnce ==
    \E rid \in ReservationIds :
        /\ reservations[rid].status = "COMPLETED"
        /\ reservations[rid].driver_rating = <<5>>
        /\ reservations[rid].passenger_rating = <<4>>
        /\ users[TripOf(rid).driver_id].total_ratings = 1
        /\ users[TripOf(rid).driver_id].rating_average = <<5, 1>>
        /\ users[reservations[rid].passenger_id].total_ratings = 1
        /\ users[reservations[rid].passenger_id].rating_average = <<4, 1>>

\* C34: the seats of a trip's PENDING reservations may sum to more than its
\* available_seats, and still available_seats is never negative: no accept of
\* a confirm request, by any caller, ends with available_seats below 0.
C34_AcceptNeverOverdraws ==
    /\ \A t \in TripRows : trips[t].available_seats >= 0
    /\ \A rid \in ReservationIds, c \in Users :
          ~ ENABLED (/\ confirm_reservation(rid, c, TRUE)
                     /\ trips'[reservations[rid].trip_id].available_seats < 0)

\* C34 witness: the PENDING reservations of a trip ask together for more
\* seats than the trip has left, although each of them alone would fit
C34_PendingOversubscribed ==
    \E t \in TripRows :
        LET pending == ReservationsOf(t, {"PENDING"})
        IN  /\ SumSeats(pending) > trips[t].available_seats
            /\ \A rid \in pending :
                  reservations[rid].number_of_seats <= trips[t].available_seats

\* the reservations of trip t whose passengers hold their seats
HoldingSeats(t) ==
    ReservationsOf(t, {"CONFIRMED", "PAID", "STARTED", "COMPLETED"})

\* C35: seat conservation: total_seats - available_seats of a trip equals
\* the sum of number_of_seats over its reservations in CONFIRMED, PAID,
\* STARTED or COMPLETED; a cancelled reservation holds no seats.
C35_SeatConservation ==
    \A t \in TripRows :
        trips[t].total_seats - trips[t].available_seats = SumSeats(HoldingSeats(t))

\* C36: cancel_trip changes only the trip's status and cancelled_at (and its
\* cancellation_reason, which is not part of the state here): the trip's
\* available_seats, the other trips, every reservation and every user are
\* left as they were.
C36_CancelTripTouchesOnlyTheTrip ==
    \A t \in TripRows, d \in Users :
        ~ ENABLED (/\ cancel_trip(t, d)
                   /\ ~ (/\ trips' = [trips EXCEPT ![t].status = "CANCELLED",
                                                   ![t].cancelled_at = TRUE]
                         /\ reservations' = reservations
                         /\ users' = users))

\* C36 witness: a CANCELLED trip still has a PENDING reservation and a
\* CONFIRMED one, whose seats are still deducted
C36_OpenReservationsOnCancelledTrip ==
    \E t \in TripRows :
        /\ trips[t].status = "CANCELLED"
        /\ trips[t].cancelled_at
        /\ ReservationsOf(t, {"PENDING"}) # {}
        /\ ReservationsOf(t, {"CONFIRMED"}) # {}
        /\ trips[t].available_seats
              = trips[t].total_seats - SumSeats(ReservationsOf(t, {"CONFIRMED"}))

\* the step changes the payment_status of some reservation
PaymentStatusChanged ==
    \E rid \in ReservationIds :
        reservations'[rid].payment_status # reservations[rid].payment_status

\* C37: no reservation is ever in status NO_SHOW or has payment_status FAILED
\* or REFUNDED, and no operation of ReservationService changes a
\* payment_status: a reservation is created with PENDING, and confirm,
\* cancel, start, complete and rate leave it as it is.
C37_NoShowAndRefundNeverSet ==
    /\ \A rid \in ReservationIds :
          /\ reservations[rid].status # "NO_SHOW"
          /\ reservations[rid].payment_status \notin {"FAILED", "REFUNDED"}
    /\ \A t \in TripIds, u \in Users, s \in SeatInputs :
          ~ ENABLED (/\ create_reservation(t, u, s, None)
                     /\ \/ PaymentStatusChanged
                        \/ reservations'[Len(reservations')].payment_status
                              # "PENDING")
    /\ \A rid \in ReservationIds, u \in Users :
          /\ \A accept \in BOOLEAN :
                ~ ENABLED (confirm_reservation(rid, u, accept)
                              /\ PaymentStatusChanged)
          /\ ~ ENABLED (cancel_reservation(rid, u) /\ PaymentStatusChanged)
          /\ ~ ENABLED (mark_reservation_as_started(rid, u)
                           /\ PaymentStatusChanged)
          /\ ~ ENABLED (mark_reservation_as_completed(rid, u)
                           /\ PaymentStatusChanged)
          /\ \A rating \in RatingRequestInputs :
                ~ ENABLED (rate_trip(rid, u, rating) /\ PaymentStatusChanged)

\* C37 witness: a reservation went from creation to COMPLETED and was rated
\* with its payment_status still PENDING, next to a cancelled reservation
\* whose payment_status is PENDING too
C37_CompletedAndCancelledUnpaid ==
    \E done, gone \in ReservationIds :
        /\ reservations[done].status = "COMPLETED"
        /\ reservations[done].driver_rating # None
        /\ reservations[done].payment_status = "PENDING"
        /\ reservations[gone].status \in Cancelled
        /\ reservations[gone].confirmed_at
        /\ reservations[gone].payment_status = "PENDING"

\* C38: a driver never has more than MaxActiveTrips trips in status ACTIVE or
\* FULL at the same time.
C38_AtMostFiveActiveTrips ==
    \A d \in Users : ActiveTripsCount(d) <= MaxActiveTrips

====
